---- MODULE Spec2Model ----
(***************************************************************************)
(* Model of the three database seeding scripts of the repository:          *)
(*   populate_test_data.py              the chore / completion seeder      *)
(*   seed_database.py                   the notes / tags seeder            *)
(*   src/components/scripts/make_db.py  the folder-tree seeder             *)
(* The scripts are independent programs with separate database files.  A   *)
(* behaviour follows the successive runs of one of them (chosen in Init);  *)
(* each database has a committed content and, while a connection is open,  *)
(* the content seen through that connection (its open transaction).        *)
(* Identifiers returned by generate_id() are modelled as fresh values      *)
(* (spec section 3: collisions are treated as negligible).                 *)
(***************************************************************************)
EXTENDS Integers, Sequences, FiniteSets, Bags, TLC

(***************************************************************************)
(* Bounds of the model.                                                    *)
(***************************************************************************)
MaxRuns == 2
FirstChore == 10
ChoreLimit == 3
MaxUsers == 2

(***************************************************************************)
(* IEEE-754 binary64 arithmetic, as used by CPython floats.  A natural     *)
(* number is a little-endian sequence of bits without leading zeros; a     *)
(* positive float is [m |-> bits, e |-> exponent], of value m * 2^e, with  *)
(* at most 53 significant bits in m.                                       *)
(***************************************************************************)
Precision == 53

\* e, once x is evaluated: keeps the evaluation of a loop's accumulator
\* within the iteration that computes it
Eager(x, e) == IF x = x THEN e ELSE e

\* the value of a function over 1..n as a tuple
Tup(a) == SubSeq(a, 1, Len(a))

\* without the leading (most significant) zeros
Norm(a) ==
    LET top == CHOOSE i \in 0..Len(a) :
                   /\ i = 0 \/ a[i] = 1
                   /\ \A j \in (i + 1)..Len(a) : a[j] = 0
    IN  SubSeq(a, 1, top)

RECURSIVE NatToBits(_)
NatToBits(n) == IF n = 0 THEN <<>> ELSE <<n % 2>> \o NatToBits(n \div 2)

RECURSIVE BitsToNat(_)
BitsToNat(a) == IF a = <<>> THEN 0 ELSE a[1] + 2 * BitsToNat(Tail(a))

Zeros(n) == Tup([i \in 1..n |-> 0])
Ones(n) == Tup([i \in 1..n |-> 1])

ShiftLeft(a, n) == IF a = <<>> THEN <<>> ELSE Zeros(n) \o a
ShiftRight(a, n) == IF n >= Len(a) THEN <<>> ELSE SubSeq(a, n + 1, Len(a))

\* Sums, products and quotients go through limbs of LimbBits bits, which
\* keeps every intermediate value below 2^31.
LimbBits == 14
LimbBase == 2 ^ LimbBits

ToLimbs(a) ==
    Tup([j \in 1..((Len(a) + LimbBits - 1) \div LimbBits) |->
        BitsToNat(SubSeq(a, (j - 1) * LimbBits + 1,
                         IF j * LimbBits <= Len(a) THEN j * LimbBits ELSE Len(a)))])

FromLimbs(l) ==
    Norm(Tup([i \in 1..(Len(l) * LimbBits) |->
            (l[((i - 1) \div LimbBits) + 1] \div (2 ^ ((i - 1) % LimbBits))) % 2]))

RECURSIVE AddC(_, _, _, _, _)
AddC(a, b, i, c, acc) ==
    IF i > Len(a) /\ i > Len(b)
    THEN (IF c = 0 THEN acc ELSE Append(acc, c))
    ELSE LET s == (IF i <= Len(a) THEN a[i] ELSE 0)
                + (IF i <= Len(b) THEN b[i] ELSE 0) + c
         IN  AddC(a, b, i + 1, s \div LimbBase, Append(acc, s % LimbBase))

\* acc (sh zero limbs) followed by the limbs of a * d, for one limb d
RECURSIVE MulLimb(_, _, _, _, _)
MulLimb(a, d, i, c, acc) ==
    IF i > Len(a) THEN (IF c = 0 THEN acc ELSE Append(acc, c))
    ELSE LET p == a[i] * d + c
         IN  MulLimb(a, d, i + 1, p \div LimbBase, Append(acc, p % LimbBase))

RECURSIVE MulAcc(_, _, _, _)
MulAcc(a, b, j, acc) ==
    IF j > Len(b) THEN acc
    ELSE MulAcc(a, b, j + 1,
                AddC(acc, MulLimb(a, b[j], 1, 0, Zeros(j - 1)), 1, 0, <<>>))

BigAdd(a, b) == FromLimbs(AddC(ToLimbs(a), ToLimbs(b), 1, 0, <<>>))

BigMul(a, b) == FromLimbs(MulAcc(ToLimbs(a), ToLimbs(b), 1, <<>>))

\* floor(a / d) and the remainder, for limbs a and a small divisor d: long
\* division from the most significant limb
RECURSIVE DivSmall(_, _, _, _, _)
DivSmall(a, d, i, rem, q) ==
    IF i = 0 THEN [q |-> q, r |-> rem]
    ELSE LET cur == rem * LimbBase + a[i]
         IN  DivSmall(a, d, i - 1, cur % d, <<cur \div d>> \o q)

\* round-half-to-even of the natural m * 2^e to Precision significant bits
RoundFloat(m0, e) ==
    LET m == Norm(m0)
        s == Len(m) - Precision
    IN  IF s <= 0 THEN [m |-> m, e |-> e]
        ELSE LET q == ShiftRight(m, s)
                 guard == m[s]
                 sticky == \E i \in 1..(s - 1) : m[i] = 1
                 up == guard = 1 /\ (sticky \/ q[1] = 1)
             IN  [m |-> IF up THEN BigAdd(q, <<1>>) ELSE q, e |-> e + s]

\* the float nearest to n / d (int / int true division; also a decimal
\* literal such as 0.7 = 7/10): the quotient of n * 2^DivGuard by d, with a
\* sticky bit for the remainder, rounded
DivGuard == 60
FDiv(n, d) ==
    LET num == ToLimbs(ShiftLeft(NatToBits(n), DivGuard))
        qr == DivSmall(num, d, Len(num), 0, <<>>)
    IN  RoundFloat(<<IF qr.r = 0 THEN 0 ELSE 1>> \o FromLimbs(qr.q),
                   0 - DivGuard - 1)

FMul(x, y) == RoundFloat(BigMul(x.m, y.m), x.e + y.e)

FAdd(x, y) ==
    LET lo == IF x.e <= y.e THEN x.e ELSE y.e
    IN  RoundFloat(BigAdd(ShiftLeft(x.m, x.e - lo), ShiftLeft(y.m, y.e - lo)), lo)

FromInt(n) == [m |-> NatToBits(n), e |-> 0]

\* int(x): truncation of a non-negative float
FInt(x) == BitsToNat(IF x.e >= 0 THEN ShiftLeft(x.m, x.e)
                     ELSE ShiftRight(x.m, 0 - x.e))

\* random.random() returns k / 2^53 for an integer k in 0 .. 2^53 - 1
RandomFloat(k) == [m |-> Norm(k), e |-> 0 - Precision]

NULL == 0

(***************************************************************************)
(* The chore / completion seeder: populate_test_data.py                    *)
(***************************************************************************)
sample_chores == <<
    [name |-> "Take Out Trash", duration_hours |-> 12],
    [name |-> "Start Washing Machine", duration_hours |-> 4],
    [name |-> "Load Dryer", duration_hours |-> 4],
    [name |-> "Fold Clothes", duration_hours |-> 4],
    [name |-> "Clean Kitchen", duration_hours |-> 5],
    [name |-> "Water Plants", duration_hours |-> 48],
    [name |-> "Load Dishwasher", duration_hours |-> 6],
    [name |-> "Empty Dishes", duration_hours |-> 6],
    [name |-> "Change Zel's Toilet", duration_hours |-> 24 * 3],
    [name |-> "Vacuum", duration_hours |-> 24],
    [name |-> "Mop", duration_hours |-> 48],
    [name |-> "Clean Toilet", duration_hours |-> 24],
    [name |-> "Clean Oven", duration_hours |-> 72],
    [name |-> "Clear Filters", duration_hours |-> 72],
    [name |-> "Update NAS", duration_hours |-> 72],
    [name |-> "Clean Windows", duration_hours |-> 24],
    [name |-> "Walk the dog", duration_hours |-> 12] >>

\* the part of sample_chores the model runs over
ModelChores ==
    SubSeq(sample_chores, FirstChore,
           IF FirstChore + ChoreLimit - 1 <= Len(sample_chores)
           THEN FirstChore + ChoreLimit - 1 ELSE Len(sample_chores))

days_back == 90

\* values of k for which random.random() = k / 2^53 is drawn: the least
\* ones, the middle and the greatest
RandomSamples == {<<>>, <<1>>, Zeros(52) \o <<1>>, Ones(53)}

\* total_expected with the random factor drawn from [0.6, 1.2]
total_expected_low(duration_hours, k) ==
    LET expected_completions_per_day == FDiv(24, duration_hours)
    IN  FInt(FMul(FMul(expected_completions_per_day, FromInt(days_back)),
                  FAdd(FDiv(6, 10), FMul(RandomFloat(k), FDiv(6, 10)))))

\* int(expected_completions_per_day * days_back * (0.7 + random.random() * 0.6))
total_expected(duration_hours, k) ==
    LET expected_completions_per_day == FDiv(24, duration_hours)
    IN  FInt(FMul(FMul(expected_completions_per_day, FromInt(days_back)),
                  FAdd(FDiv(7, 10), FMul(RandomFloat(k), FDiv(6, 10)))))

Durations == {ModelChores[i].duration_hours : i \in 1..Len(ModelChores)}

\* total_expected, tabulated over the durations and random draws of the model
CountTable ==
    LET pairs == Durations \X RandomSamples
        tab == {<<p, total_expected(p[1], p[2])>> : p \in pairs}
    IN  [p \in pairs |-> (CHOOSE t \in tab : t[1] = p)[2]]

RowIds(tbl) == {tbl[i].id : i \in 1..Len(tbl)}

\* INSERT INTO chores: the table takes the row unless its id (primary key)
\* or its name (unique) is already there, which raises IntegrityError
chores_insert_ok(tbl, row) ==
    \A i \in 1..Len(tbl) : tbl[i].id # row.id /\ tbl[i].name # row.name

\* create_or_get_chore that keeps the generated id when the chore exists
create_or_get_chore_fresh(tbl, processed, chore, chore_id) ==
    LET row == [id |-> chore_id, name |-> chore.name,
                duration_hours |-> chore.duration_hours]
    IN  IF chores_insert_ok(tbl, row)
        THEN [chores |-> Append(tbl, row), processed |-> Append(processed, row)]
        ELSE [chores |-> tbl, processed |-> Append(processed, row)]

\* one iteration of the "Create/get chores" loop: the table and
\* processed_chores after it
create_or_get_chore(tbl, processed, chore, chore_id) ==
    LET row == [id |-> chore_id, name |-> chore.name,
                duration_hours |-> chore.duration_hours]
    IN  IF chores_insert_ok(tbl, row)
        THEN [chores |-> Append(tbl, row), processed |-> Append(processed, row)]
        ELSE LET found == SelectSeq(tbl, LAMBDA r : r.name = chore.name)
             IN  IF found # <<>>
                 THEN [chores |-> tbl, processed |-> Append(processed, found[1])]
                 ELSE [chores |-> tbl, processed |-> processed]

\* insert_completions that binds the chore's duration_hours to chore_id
insert_completions_field(tbl, chore, total) ==
    IF total = 0 THEN tbl ELSE tbl (+) [c \in {chore.duration_hours} |-> total]

\* the completion rows of one chore: total rows whose chore_id is the
\* chore's id (a table of completions is the bag of its rows' chore_id)
insert_completions(tbl, chore, total) ==
    IF total = 0 THEN tbl ELSE tbl (+) [c \in {chore.id} |-> total]

(***************************************************************************)
(* The notes / tags seeder: seed_database.py                               *)
(***************************************************************************)
\* the titles of SAMPLE_NOTES, in order (every entry has parent_id None and
\* syntax "markdown"; abstract, content and the random timestamps do not
\* bear on any row's identity or links and are left out)
SAMPLE_NOTES == <<
    "Introduction to Machine Learning",
    "Deep Learning Fundamentals",
    "Computer Science",
    "Algorithms and Data Structures",
    "Sorting Algorithms",
    "Binary Search Trees",
    "Python Best Practices",
    "Web Development Notes",
    "Database Design Principles",
    "Research Ideas" >>

SAMPLE_TAGS == <<
    "machine-learning", "deep-learning", "algorithms", "data-structures",
    "python", "web-development", "database", "research", "computer-science",
    "programming", "ai", "neural-networks", "sorting", "trees",
    "best-practices", "backend", "frontend", "optimization", "security",
    "cloud" >>

note_tag_mapping ==
    [t \in {SAMPLE_NOTES[i] : i \in 1..Len(SAMPLE_NOTES)} |->
        CASE t = "Introduction to Machine Learning" ->
                 <<"machine-learning", "ai", "computer-science">>
          [] t = "Deep Learning Fundamentals" ->
                 <<"deep-learning", "neural-networks", "ai", "machine-learning">>
          [] t = "Computer Science" -> <<"computer-science", "programming">>
          [] t = "Algorithms and Data Structures" ->
                 <<"algorithms", "data-structures", "computer-science", "programming">>
          [] t = "Sorting Algorithms" -> <<"algorithms", "sorting", "programming">>
          [] t = "Binary Search Trees" -> <<"data-structures", "trees", "algorithms">>
          [] t = "Python Best Practices" ->
                 <<"python", "programming", "best-practices">>
          [] t = "Web Development Notes" ->
                 <<"web-development", "frontend", "backend", "programming">>
          [] t = "Database Design Principles" ->
                 <<"database", "optimization", "backend">>
          [] t = "Research Ideas" -> <<"research", "ai", "machine-learning">>]

\* the user ids the users table may hold
UserIds == {"u1", "u2"}

\* what "SELECT id, username FROM users" may return: the ids of the rows
RECURSIVE SeqsUpTo(_, _)
SeqsUpTo(S, n) ==
    IF n = 0 THEN {<<>>}
    ELSE LET shorter == SeqsUpTo(S, n - 1)
         IN  shorter \cup {Append(q, x) : q \in shorter, x \in S}

UserLists == SeqsUpTo(UserIds, MaxUsers)

\* "folder" in title.lower(): none of the sample titles contains it
ContainsFolder(title) == FALSE

RowWithId(tbl, id) == tbl[CHOOSE i \in 1..Len(tbl) : tbl[i].id = id]

\* "SELECT title FROM notes WHERE id = ?", fetchone()[0]
TitleOf(tbl, id) == RowWithId(tbl, id).title

\* "UPDATE notes SET parent_id = ? WHERE id = ?"
SetParent(tbl, parent, id) ==
    Tup([i \in 1..Len(tbl) |->
            IF tbl[i].id = id THEN [tbl[i] EXCEPT !.parent_id = parent] ELSE tbl[i]])

InSeq(x, q) == \E i \in 1..Len(q) : q[i] = x

\* the ids generate_id() gives to the n rows of one loop
FreshIds(first, n) == Tup([i \in 1..n |-> first + i - 1])

\* the insert loop of seed_notes, lines 416-438: one row per sample note
insert_notes(tbl, user_id, note_ids) ==
    tbl \o Tup([i \in 1..Len(SAMPLE_NOTES) |->
                  [id |-> note_ids[i], title |-> SAMPLE_NOTES[i],
                   parent_id |-> NULL, user_id |-> user_id]])

\* parent_notes, lines 440-442
parent_notes_of(note_ids) ==
    SelectSeq(note_ids,
              LAMBDA id : LET title == SAMPLE_NOTES[CHOOSE i \in 1..Len(note_ids) :
                                                       note_ids[i] = id]
                          IN  \/ ContainsFolder(title)
                              \/ title \in {"Computer Science",
                                            "Web Development Notes", "Research Ideas"})

\* adopt_algorithm_notes with "Computer Science" in the title list
adopt_algorithm_notes_and_cs(tbl, note_ids, alg_parent) ==
    Tup([i \in 1..Len(tbl) |->
            IF InSeq(tbl[i].id, note_ids)
               /\ tbl[i].title \in {"Sorting Algorithms", "Binary Search Trees",
                                    "Computer Science"}
            THEN [tbl[i] EXCEPT !.parent_id = alg_parent] ELSE tbl[i]])

\* the inner loop of lines 461-466: Sorting Algorithms and Binary Search
\* Trees of this call become children of alg_parent
adopt_algorithm_notes(tbl, note_ids, alg_parent) ==
    Tup([i \in 1..Len(tbl) |->
            IF InSeq(tbl[i].id, note_ids)
               /\ tbl[i].title \in {"Sorting Algorithms", "Binary Search Trees"}
            THEN [tbl[i] EXCEPT !.parent_id = alg_parent] ELSE tbl[i]])

\* the loop of lines 447-466, from index i on, cs_parent being the
\* "Computer Science" note seen so far
RECURSIVE hierarchy_loop(_, _, _, _)
hierarchy_loop(tbl, note_ids, i, cs_parent) ==
    IF i > Len(note_ids) THEN tbl
    ELSE LET note_id == note_ids[i]
             title == TitleOf(tbl, note_id)
         IN  IF title = "Computer Science"
             THEN hierarchy_loop(tbl, note_ids, i + 1, note_id)
             ELSE LET t1 == IF /\ cs_parent # NULL
                               /\ title \in {"Introduction to Machine Learning",
                                             "Deep Learning Fundamentals",
                                             "Algorithms and Data Structures"}
                            THEN SetParent(tbl, cs_parent, note_id) ELSE tbl
                      t2 == IF title = "Algorithms and Data Structures"
                            THEN adopt_algorithm_notes(t1, note_ids, note_id) ELSE t1
                  IN  Eager(t2, hierarchy_loop(t2, note_ids, i + 1, cs_parent))

\* create_hierarchy with cs_parent read once from the table by title, which
\* finds the oldest "Computer Science" note
create_hierarchy_by_title(tbl, note_ids) ==
    LET found == SelectSeq(tbl, LAMBDA r : r.title = "Computer Science")
    IN  hierarchy_loop(tbl, note_ids, 1, found[1].id)

\* "Create some hierarchical relationships", lines 444-466
create_hierarchy(tbl, note_ids) ==
    LET parent_notes == parent_notes_of(note_ids)
    IN  IF Len(parent_notes) > 0 /\ Len(note_ids) > Len(parent_notes)
        THEN hierarchy_loop(tbl, note_ids, 1, NULL)
        ELSE tbl

\* seed_notes(user_id): the notes table at its commit
seed_notes(tbl, user_id, note_ids) ==
    create_hierarchy(insert_notes(tbl, user_id, note_ids), note_ids)

\* tags_insert_ok without UNIQUE(title, user_id)
tags_insert_ok_pk(tbl, row) ==
    \A i \in 1..Len(tbl) : tbl[i].id # row.id

\* INSERT INTO tags succeeds unless the id (primary key) or the pair
\* (title, user_id) (unique) is already there, lines 362-372
tags_insert_ok(tbl, row) ==
    \A i \in 1..Len(tbl) :
       /\ tbl[i].id # row.id
       /\ ~(tbl[i].title = row.title /\ tbl[i].user_id = row.user_id)

\* the loop of seed_tags, lines 479-490, from index i on
RECURSIVE seed_tags(_, _, _, _)
seed_tags(tbl, user_id, tag_ids, i) ==
    IF i > Len(SAMPLE_TAGS) THEN tbl
    ELSE LET row == [id |-> tag_ids[i], title |-> SAMPLE_TAGS[i],
                     user_id |-> user_id]
             next_tbl == IF tags_insert_ok(tbl, row) THEN Append(tbl, row) ELSE tbl
         IN  Eager(next_tbl, seed_tags(next_tbl, user_id, tag_ids, i + 1))

\* tags_map_of with "SELECT id, title FROM tags", the tags of every user
tags_map_of_all_users(tags, user_id) ==
    [t \in {tags[i].title : i \in 1..Len(tags)} |->
        tags[CHOOSE i \in 1..Len(tags) :
                /\ tags[i].title = t
                /\ \A j \in (i + 1)..Len(tags) : tags[j].title # t].id]

\* tags_map, lines 502-503: title -> id over the user's tags (a later row
\* replaces an earlier one of the same title)
tags_map_of(tags, user_id) ==
    LET mine == SelectSeq(tags, LAMBDA r : r.user_id = user_id)
    IN  [t \in {mine[i].title : i \in 1..Len(mine)} |->
            mine[CHOOSE i \in 1..Len(mine) :
                    /\ mine[i].title = t
                    /\ \A j \in (i + 1)..Len(mine) : mine[j].title # t].id]

\* INSERT INTO note_tags succeeds unless the id (primary key) or the pair
\* (note_id, tag_id) (unique) is already there, lines 374-384
note_tags_insert_ok(tbl, row) ==
    \A i \in 1..Len(tbl) :
       /\ tbl[i].id # row.id
       /\ ~(tbl[i].note_id = row.note_id /\ tbl[i].tag_id = row.tag_id)

\* the loop over note_tag_mapping[note_title] for one note, lines 524-534,
\* from index j on; next is the id generate_id() returns next
RECURSIVE link_note(_, _, _, _, _, _)
link_note(st, note_id, titles, tags_map, j, next) ==
    IF j > Len(titles) THEN [note_tags |-> st, next |-> next]
    ELSE IF titles[j] \in DOMAIN tags_map
    THEN LET row == [id |-> next, note_id |-> note_id,
                     tag_id |-> tags_map[titles[j]]]
             next_st == IF note_tags_insert_ok(st, row) THEN Append(st, row) ELSE st
         IN  Eager(next_st,
                   link_note(next_st, note_id, titles, tags_map, j + 1, next + 1))
    ELSE link_note(st, note_id, titles, tags_map, j + 1, next)

\* the loop of lines 519-534 over note_ids, from index i on
RECURSIVE link_notes(_, _, _, _, _, _)
link_notes(st, notes, note_ids, tags_map, i, next) ==
    IF i > Len(note_ids) THEN [note_tags |-> st, next |-> next]
    ELSE LET note_title == TitleOf(notes, note_ids[i])
         IN  IF note_title \in DOMAIN note_tag_mapping
             THEN LET r == link_note(st, note_ids[i], note_tag_mapping[note_title],
                                     tags_map, 1, next)
                  IN  Eager(r, link_notes(r.note_tags, notes, note_ids, tags_map,
                                          i + 1, r.next))
             ELSE link_notes(st, notes, note_ids, tags_map, i + 1, next)

\* create_note_tag_relationships that links every note of the user found in
\* the table, through a note_tags table without UNIQUE(note_id, tag_id)
create_note_tag_relationships_all(st, notes, tags, note_ids, user_id, next) ==
    LET tags_map == tags_map_of(tags, user_id)
        mine == SelectSeq(notes, LAMBDA r : r.user_id = user_id)
        slots == Tup([k \in 1..(4 * Len(mine)) |->
                        LET note == mine[((k - 1) \div 4) + 1]
                            titles == note_tag_mapping[note.title]
                            j == ((k - 1) % 4) + 1
                        IN  IF j <= Len(titles) /\ titles[j] \in DOMAIN tags_map
                            THEN [id |-> next + k - 1, note_id |-> note.id,
                                  tag_id |-> tags_map[titles[j]]]
                            ELSE [id |-> next + k - 1, note_id |-> NULL,
                                  tag_id |-> NULL]])
    IN  [note_tags |-> st \o SelectSeq(slots, LAMBDA r : r.note_id # NULL),
         next |-> next + 4 * Len(mine)]

\* no_users that never holds: main goes on with an empty list of users
no_users_never(users_list) == FALSE

\* create_note_tag_relationships(note_ids, tag_ids, user_id): note_tags at
\* its commit and the next fresh id (tag_ids is not used by the function)
create_note_tag_relationships(st, notes, tags, note_ids, user_id, next) ==
    LET tags_map == tags_map_of(tags, user_id)
    IN  Eager(tags_map, link_notes(st, notes, note_ids, tags_map, 1, next))

\* "if not users", line 550
no_users(users_list) == users_list = <<>>

VARIABLES
    script,            \* the script this behaviour runs
    raised,            \* functions in which a database error other than an
                       \* IntegrityError was raised during the current run
    runs,              \* number of runs started
    nextId,            \* next value generate_id() returns
    chores_db,         \* committed rows of chores
    completions_db,    \* committed rows of chore_completions
    tx_chores,         \* chores as seen through the open connection
    tx_completions,    \* chore_completions as seen through the connection
    cpc,               \* position of populate_test_data.main
    ci,                \* index of the loop over sample_chores
    processed_chores,
    pi,                \* index of the loop over processed_chores
    generated          \* total_expected of each processed chore, this run

chore_vars == <<chores_db, completions_db, tx_chores, tx_completions, cpc, ci,
                processed_chores, pi, generated>>

VARIABLES
    notes_db,          \* committed rows of notes (notes.sqlite)
    tags_db,           \* committed rows of tags
    note_tags_db,      \* committed rows of note_tags
    schema_created,    \* create_database has created the tables
    npc,               \* position of seed_database.main
    users,             \* what get_users returned: the ids of the users
    ui,                \* index of the loop over users
    note_ids,          \* what seed_notes returned
    tag_ids,           \* what seed_tags returned
    batches,           \* history: user and note ids of every seed_notes call
    seeded             \* history: the user list of every run main has ended normally

notes_vars == <<notes_db, tags_db, note_tags_db, schema_created, npc, users, ui, note_ids, tag_ids, batches, seeded>>

VARIABLES
    tree_db,           \* committed rows of notes (notes.sqlite of make_db)
    tree_tx,           \* the rows as seen through the open connection
    tree_table,        \* the table notes exists
    tpc,               \* position of make_db.main
    ti,                \* index of the row executemany is at
    tree_committed,    \* conn.commit() was done in the current run
    tree_commits       \* history: number of commits of all runs

tree_vars == <<tree_db, tree_tx, tree_table, tpc, ti, tree_committed,
               tree_commits>>

ChoreInit ==
    /\ chores_db = <<>>
    /\ completions_db = EmptyBag
    /\ tx_chores = <<>>
    /\ tx_completions = EmptyBag
    /\ cpc = "idle"
    /\ ci = 1
    /\ processed_chores = <<>>
    /\ pi = 1
    /\ generated = <<>>

\* ChoreUncaught on a connection in autocommit mode: what was written
\* before the exception stays in the database
ChoreUncaughtAutocommit ==
    /\ cpc' = "uncaught"
    /\ raised' = {"populate_test_data.main"}
    /\ chores_db' = tx_chores
    /\ completions_db' = tx_completions
    /\ UNCHANGED <<tx_chores, tx_completions>>

\* an exception leaves main: the process ends, the connection is dropped
\* and what it had not committed is rolled back
ChoreUncaught ==
    /\ cpc' = "uncaught"
    /\ raised' = {"populate_test_data.main"}
    /\ tx_chores' = chores_db
    /\ tx_completions' = completions_db
    /\ UNCHANGED <<chores_db, completions_db>>

\* main, lines 16-56: connect and set up the run
ChoreStart ==
    /\ script = "chore"
    /\ cpc \in {"idle", "done", "uncaught"}
    /\ runs < MaxRuns
    /\ runs' = runs + 1
    /\ cpc' = "create_chores"
    /\ tx_chores' = chores_db
    /\ tx_completions' = completions_db
    /\ ci' = 1
    /\ processed_chores' = <<>>
    /\ pi' = 1
    /\ generated' = <<>>
    /\ UNCHANGED <<script, nextId, chores_db, completions_db>>
    /\ raised' = {}
    /\ UNCHANGED <<notes_vars, tree_vars>>

\* sqlite3.connect raises
ChoreConnectError ==
    /\ script = "chore"
    /\ cpc \in {"idle", "done", "uncaught"}
    /\ runs < MaxRuns
    /\ runs' = runs + 1
    /\ ChoreUncaught
    /\ ci' = 1
    /\ processed_chores' = <<>>
    /\ pi' = 1
    /\ generated' = <<>>
    /\ UNCHANGED <<script, nextId>>
    /\ UNCHANGED <<notes_vars, tree_vars>>

\* one iteration of the loop of lines 59-82
CreateChore ==
    /\ cpc = "create_chores"
    /\ ci <= Len(ModelChores)
    /\ LET res == create_or_get_chore(tx_chores, processed_chores,
                                       ModelChores[ci], nextId)
       IN  /\ tx_chores' = res.chores
           /\ processed_chores' = res.processed
    /\ nextId' = nextId + 1
    /\ ci' = ci + 1
    /\ UNCHANGED <<script, raised, runs, chores_db, completions_db, tx_completions,
                   cpc, pi, generated>>
    /\ UNCHANGED <<notes_vars, tree_vars>>

\* the INSERT or the SELECT of an iteration raises an error that is not an
\* IntegrityError (no such table, database locked, ...)
CreateChoreError ==
    /\ cpc = "create_chores"
    /\ ci <= Len(ModelChores)
    /\ nextId' = nextId + 1
    /\ ChoreUncaught
    /\ UNCHANGED <<script, runs, ci, processed_chores, pi, generated>>
    /\ UNCHANGED <<notes_vars, tree_vars>>

\* the loop over sample_chores ends, lines 84-87
ChoresCreated ==
    /\ cpc = "create_chores"
    /\ ci > Len(ModelChores)
    /\ cpc' = "completions"
    /\ UNCHANGED <<script, raised, runs, nextId, chores_db, completions_db, tx_chores,
                   tx_completions, ci, processed_chores, pi, generated>>
    /\ UNCHANGED <<notes_vars, tree_vars>>

\* one iteration of the loop of lines 89-115: all the completions of a chore
GenerateCompletions ==
    /\ cpc = "completions"
    /\ pi <= Len(processed_chores)
    /\ \E k \in RandomSamples :
          LET chore == processed_chores[pi]
              total == CountTable[<<chore.duration_hours, k>>]
          IN  /\ generated' = Append(generated, total)
              /\ tx_completions' = insert_completions(tx_completions, chore, total)
    /\ pi' = pi + 1
    /\ UNCHANGED <<script, raised, runs, nextId, chores_db, completions_db, tx_chores,
                   cpc, ci, processed_chores>>
    /\ UNCHANGED <<notes_vars, tree_vars>>

\* an INSERT INTO chore_completions raises
GenerateCompletionsError ==
    /\ cpc = "completions"
    /\ pi <= Len(processed_chores)
    /\ ChoreUncaught
    /\ UNCHANGED <<script, runs, nextId, ci, processed_chores, pi, generated>>
    /\ UNCHANGED <<notes_vars, tree_vars>>

\* conn.commit(); conn.close(), lines 118-119
ChoreCommit ==
    /\ cpc = "completions"
    /\ pi > Len(processed_chores)
    /\ chores_db' = tx_chores
    /\ completions_db' = tx_completions
    /\ cpc' = "done"
    /\ UNCHANGED <<script, raised, runs, nextId, tx_chores, tx_completions, ci,
                   processed_chores, pi, generated>>
    /\ UNCHANGED <<notes_vars, tree_vars>>

\* conn.commit() raises
ChoreCommitError ==
    /\ cpc = "completions"
    /\ pi > Len(processed_chores)
    /\ ChoreUncaught
    /\ UNCHANGED <<script, runs, nextId, ci, processed_chores, pi, generated>>
    /\ UNCHANGED <<notes_vars, tree_vars>>


(***************************************************************************)
(* State and steps of the notes / tags seeder                              *)
(***************************************************************************)
NotesInit ==
    /\ notes_db = <<>>
    /\ tags_db = <<>>
    /\ note_tags_db = <<>>
    /\ schema_created = FALSE
    /\ npc = "idle"
    /\ users = <<>>
    /\ ui = 1
    /\ note_ids = <<>>
    /\ tag_ids = <<>>
    /\ batches = <<>>
    /\ seeded = <<>>

\* main, lines 539-548, get_users returning the rows of the users table
NotesStart ==
    /\ script = "notes"
    /\ npc \in {"idle", "done", "uncaught"}
    /\ runs < MaxRuns
    /\ runs' = runs + 1
    /\ \E us \in UserLists : users' = us
    /\ raised' = {}
    /\ npc' = "got_users"
    /\ ui' = 1
    /\ note_ids' = <<>>
    /\ tag_ids' = <<>>
    /\ UNCHANGED <<script, nextId, notes_db, tags_db, note_tags_db,
                   schema_created, batches, seeded>>
    /\ UNCHANGED <<chore_vars, tree_vars>>

\* get_users catches sqlite3.Error, prints it and returns [], lines 336-339
NotesStartReadError ==
    /\ script = "notes"
    /\ npc \in {"idle", "done", "uncaught"}
    /\ runs < MaxRuns
    /\ runs' = runs + 1
    /\ users' = <<>>
    /\ raised' = {"get_users"}
    /\ npc' = "got_users"
    /\ ui' = 1
    /\ note_ids' = <<>>
    /\ tag_ids' = <<>>
    /\ UNCHANGED <<script, nextId, notes_db, tags_db, note_tags_db,
                   schema_created, batches, seeded>>
    /\ UNCHANGED <<chore_vars, tree_vars>>

\* "No users found in the users database. Exiting.", lines 550-552
NotesNoUsers ==
    /\ npc = "got_users"
    /\ no_users(users)
    /\ npc' = "done"
    /\ UNCHANGED <<script, raised, runs, nextId, notes_db, tags_db, note_tags_db,
                   schema_created, users, ui, note_ids,
                   tag_ids, batches>>
    /\ seeded' = Append(seeded, users)
    /\ UNCHANGED <<chore_vars, tree_vars>>

\* create_database(), lines 554-558 and 341-405
NotesCreateDatabase ==
    /\ npc = "got_users"
    /\ ~no_users(users)
    /\ schema_created' = TRUE
    /\ npc' = "seed_notes"
    /\ UNCHANGED <<script, raised, runs, nextId, notes_db, tags_db, note_tags_db,
                   users, ui, note_ids, tag_ids, batches, seeded>>
    /\ UNCHANGED <<chore_vars, tree_vars>>

\* an exception leaves main; what the failing function had not committed
\* is rolled back
NotesUncaught(function) ==
    /\ npc' = "uncaught"
    /\ raised' = {function}
    /\ UNCHANGED <<script, runs, nextId, notes_db, tags_db, note_tags_db,
                   schema_created, users, ui, note_ids,
                   tag_ids, batches, seeded>>

\* sqlite3.connect or a CREATE statement of create_database raises
NotesCreateDatabaseError ==
    /\ npc = "got_users"
    /\ ~no_users(users)
    /\ NotesUncaught("create_database")
    /\ UNCHANGED <<chore_vars, tree_vars>>

\* note_ids = seed_notes(user_id), line 565
SeedNotes ==
    /\ npc = "seed_notes"
    /\ ui <= Len(users)
    /\ LET ids == FreshIds(nextId, Len(SAMPLE_NOTES))
       IN  /\ notes_db' = seed_notes(notes_db, users[ui], ids)
           /\ note_ids' = ids
           /\ batches' = Append(batches, [user |-> users[ui], ids |-> ids])
           /\ UNCHANGED seeded
    /\ nextId' = nextId + Len(SAMPLE_NOTES)
    /\ npc' = "seed_tags"
    /\ UNCHANGED <<script, raised, runs, tags_db, note_tags_db, schema_created, users, ui, tag_ids>>
    /\ UNCHANGED <<chore_vars, tree_vars>>

\* a statement of seed_notes raises
SeedNotesError ==
    /\ npc = "seed_notes"
    /\ ui <= Len(users)
    /\ NotesUncaught("seed_notes")
    /\ UNCHANGED <<chore_vars, tree_vars>>

\* tag_ids = seed_tags(user_id), line 569
SeedTags ==
    /\ npc = "seed_tags"
    /\ LET ids == FreshIds(nextId, Len(SAMPLE_TAGS))
       IN  /\ tags_db' = seed_tags(tags_db, users[ui], ids, 1)
           /\ tag_ids' = ids
    /\ nextId' = nextId + Len(SAMPLE_TAGS)
    /\ npc' = "links"
    /\ UNCHANGED <<script, raised, runs, notes_db, note_tags_db, schema_created, users, ui, note_ids, batches, seeded>>
    /\ UNCHANGED <<chore_vars, tree_vars>>

\* a statement of seed_tags raises an error that is not an IntegrityError
SeedTagsError ==
    /\ npc = "seed_tags"
    /\ NotesUncaught("seed_tags")
    /\ UNCHANGED <<chore_vars, tree_vars>>

\* create_note_tag_relationships(note_ids, tag_ids, user_id), line 573
CreateRelationships ==
    /\ npc = "links"
    /\ LET r == create_note_tag_relationships(note_tags_db, notes_db, tags_db,
                                               note_ids, users[ui], nextId)
       IN  /\ note_tags_db' = r.note_tags
           /\ nextId' = r.next
    /\ ui' = ui + 1
    /\ npc' = "seed_notes"
    /\ UNCHANGED <<script, raised, runs, notes_db, tags_db, schema_created, users, note_ids, tag_ids, batches, seeded>>
    /\ UNCHANGED <<chore_vars, tree_vars>>

\* a statement of create_note_tag_relationships raises an error that is not
\* an IntegrityError
CreateRelationshipsError ==
    /\ npc = "links"
    /\ NotesUncaught("create_note_tag_relationships")
    /\ UNCHANGED <<chore_vars, tree_vars>>

\* the loop over users ends, lines 576-579
NotesFinish ==
    /\ npc = "seed_notes"
    /\ ui > Len(users)
    /\ npc' = "done"
    /\ UNCHANGED <<script, raised, runs, nextId, notes_db, tags_db, note_tags_db,
                   schema_created, users, ui, note_ids,
                   tag_ids, batches>>
    /\ seeded' = Append(seeded, users)
    /\ UNCHANGED <<chore_vars, tree_vars>>


(***************************************************************************)
(* The folder-tree seeder: src/components/scripts/make_db.py               *)
(***************************************************************************)
data == <<
    [id |-> "1", label |-> "Documents", parent_id |-> NULL],
    [id |-> "2", label |-> "Pictures", parent_id |-> NULL],
    [id |-> "3", label |-> "Videos", parent_id |-> NULL],
    [id |-> "4", label |-> "Music", parent_id |-> NULL],
    [id |-> "1-1", label |-> "Work", parent_id |-> "1"],
    [id |-> "1-2", label |-> "Personal", parent_id |-> "1"],
    [id |-> "1-1-1", label |-> "Project A", parent_id |-> "1-1"],
    [id |-> "1-1-2", label |-> "Project B", parent_id |-> "1-1"],
    [id |-> "1-1-3", label |-> "Meeting Notes", parent_id |-> "1-1"],
    [id |-> "1-2-1", label |-> "Tax Documents", parent_id |-> "1-2"],
    [id |-> "1-2-2", label |-> "Insurance", parent_id |-> "1-2"],
    [id |-> "1-2-3", label |-> "Receipts", parent_id |-> "1-2"],
    [id |-> "1-1-2-1", label |-> "Design Files", parent_id |-> "1-1-2"],
    [id |-> "1-1-2-2", label |-> "Code Review", parent_id |-> "1-1-2"],
    [id |-> "1-2-3-1", label |-> "2023", parent_id |-> "1-2-3"],
    [id |-> "1-2-3-2", label |-> "2024", parent_id |-> "1-2-3"],
    [id |-> "2-1", label |-> "Vacation", parent_id |-> "2"],
    [id |-> "2-2", label |-> "Family", parent_id |-> "2"],
    [id |-> "2-3", label |-> "Screenshots", parent_id |-> "2"],
    [id |-> "2-1-1", label |-> "Beach Trip 2023", parent_id |-> "2-1"],
    [id |-> "2-1-2", label |-> "Mountain Hike 2024", parent_id |-> "2-1"],
    [id |-> "2-2-1", label |-> "Birthday Party", parent_id |-> "2-2"],
    [id |-> "2-2-2", label |-> "Christmas 2023", parent_id |-> "2-2"],
    [id |-> "3-1", label |-> "Tutorials", parent_id |-> "3"],
    [id |-> "3-2", label |-> "Movies", parent_id |-> "3"],
    [id |-> "3-3", label |-> "Personal", parent_id |-> "3"],
    [id |-> "3-2-1", label |-> "Action", parent_id |-> "3-2"],
    [id |-> "3-2-2", label |-> "Comedy", parent_id |-> "3-2"],
    [id |-> "3-2-3", label |-> "Documentary", parent_id |-> "3-2"] >>

\* insert_or_ignore on a table whose id is not a key
insert_or_ignore_nokey(tbl, row) == Append(tbl, row)

\* "INSERT OR IGNORE INTO notes(id, label, parent_id)": the row is dropped
\* when its id, the primary key, is already in the table
insert_or_ignore(tbl, row) ==
    IF \E i \in 1..Len(tbl) : tbl[i].id = row.id THEN tbl ELSE Append(tbl, row)

\* where insert_initial_data goes when its try block raises, if the error
\* were left uncaught
insert_initial_data_reraise == "uncaught"

\* where insert_initial_data goes when its try block raises: "except Error
\* as e: print(e)", then main closes the connection
insert_initial_data_except == "done"

TreeInit ==
    /\ tree_db = <<>>
    /\ tree_tx = <<>>
    /\ tree_table = FALSE
    /\ tpc = "idle"
    /\ ti = 1
    /\ tree_committed = FALSE
    /\ tree_commits = 0

\* main, lines 88-93: create_connection returns a connection
TreeStart ==
    /\ script = "tree"
    /\ tpc \in {"idle", "done", "uncaught"}
    /\ runs < MaxRuns
    /\ runs' = runs + 1
    /\ raised' = {}
    /\ tpc' = "create_table"
    /\ tree_tx' = tree_db
    /\ ti' = 1
    /\ tree_committed' = FALSE
    /\ UNCHANGED <<script, nextId, tree_db, tree_table, tree_commits>>
    /\ UNCHANGED <<chore_vars, notes_vars>>

\* create_connection catches the error, prints it and returns None; main
\* prints "Error! Cannot create the database connection.", lines 12-14, 103
TreeConnectError ==
    /\ script = "tree"
    /\ tpc \in {"idle", "done", "uncaught"}
    /\ runs < MaxRuns
    /\ runs' = runs + 1
    /\ raised' = {"create_connection"}
    /\ tpc' = "done"
    /\ tree_tx' = tree_db
    /\ ti' = 1
    /\ tree_committed' = FALSE
    /\ UNCHANGED <<script, nextId, tree_db, tree_table, tree_commits>>
    /\ UNCHANGED <<chore_vars, notes_vars>>

\* create_table(conn): CREATE TABLE IF NOT EXISTS notes, lines 17-29
TreeCreateTable ==
    /\ tpc = "create_table"
    /\ tree_table' = TRUE
    /\ tpc' = "insert"
    /\ UNCHANGED <<script, raised, runs, nextId, tree_db, tree_tx, ti,
                   tree_committed, tree_commits>>
    /\ UNCHANGED <<chore_vars, notes_vars>>

\* create_table catches the error and prints it, lines 30-31
TreeCreateTableError ==
    /\ tpc = "create_table"
    /\ raised' = raised \cup {"create_table"}
    /\ tpc' = "insert"
    /\ UNCHANGED <<script, runs, nextId, tree_db, tree_tx, tree_table, ti,
                   tree_committed, tree_commits>>
    /\ UNCHANGED <<chore_vars, notes_vars>>

\* executemany(sql, data) inserts its next row, line 82
TreeInsertRow ==
    /\ tpc = "insert"
    /\ ti <= Len(data)
    /\ tree_table
    /\ tree_tx' = insert_or_ignore(tree_tx, data[ti])
    /\ ti' = ti + 1
    /\ UNCHANGED <<script, raised, runs, nextId, tree_db, tree_table, tpc,
                   tree_committed, tree_commits>>
    /\ UNCHANGED <<chore_vars, notes_vars>>

\* executemany or commit raises (always so when the table is missing); the
\* function returns without committing and conn.close() drops what is
\* pending, lines 84-85 and 101
TreeInsertError ==
    /\ tpc = "insert"
    /\ raised' = raised \cup {"insert_initial_data"}
    /\ tpc' = insert_initial_data_except
    /\ tree_tx' = tree_db
    /\ UNCHANGED <<script, runs, nextId, tree_db, tree_table, ti,
                   tree_committed, tree_commits>>
    /\ UNCHANGED <<chore_vars, notes_vars>>

\* conn.commit(), line 83, then conn.close(), line 101
TreeCommit ==
    /\ tpc = "insert"
    /\ ti > Len(data)
    /\ tree_db' = tree_tx
    /\ tree_committed' = TRUE
    /\ tree_commits' = tree_commits + 1
    /\ tpc' = "done"
    /\ UNCHANGED <<script, raised, runs, nextId, tree_tx, tree_table, ti>>
    /\ UNCHANGED <<chore_vars, notes_vars>>


(***************************************************************************)
(* The three scripts together                                              *)
(***************************************************************************)
vars == <<script, raised, runs, nextId, chore_vars, notes_vars, tree_vars>>

Init ==
    /\ script \in {"chore", "notes", "tree"}
    /\ raised = {}
    /\ runs = 0
    /\ nextId = 1
    /\ ChoreInit
    /\ NotesInit
    /\ TreeInit

Next ==
    \/ ChoreStart
    \/ ChoreConnectError
    \/ CreateChore
    \/ CreateChoreError
    \/ ChoresCreated
    \/ GenerateCompletions
    \/ GenerateCompletionsError
    \/ ChoreCommit
    \/ ChoreCommitError
    \/ NotesStart
    \/ NotesStartReadError
    \/ NotesNoUsers
    \/ NotesCreateDatabase
    \/ NotesCreateDatabaseError
    \/ SeedNotes
    \/ SeedNotesError
    \/ SeedTags
    \/ SeedTagsError
    \/ CreateRelationships
    \/ CreateRelationshipsError
    \/ NotesFinish
    \/ TreeStart
    \/ TreeConnectError
    \/ TreeCreateTable
    \/ TreeCreateTableError
    \/ TreeInsertRow
    \/ TreeInsertError
    \/ TreeCommit

Spec == Init /\ [][Next]_vars

(***************************************************************************)
(* Claims about the chore seeder                                           *)
(***************************************************************************)
ChoreNamesUnique(tbl) ==
    \A i, j \in 1..Len(tbl) : tbl[i].name = tbl[j].name => i = j

ChoreRunning == cpc \in {"create_chores", "completions", "done"}

\* C1: however often the chore seeder runs, no two rows of chores have the
\* same name; a chore whose name is already stored is processed with the id
\* of the stored row, not with the id generated for it, and the completions
\* generated for it carry that id.
C1_NoDuplicateChores ==
    /\ ChoreNamesUnique(chores_db)
    /\ ChoreNamesUnique(tx_chores)
    /\ ChoreRunning =>
          \A i \in 1..Len(processed_chores) :
             /\ \E j \in 1..Len(tx_chores) : tx_chores[j] = processed_chores[i]
             /\ \A j \in 1..Len(chores_db) :
                   chores_db[j].name = processed_chores[i].name
                       => chores_db[j].id = processed_chores[i].id
    /\ cpc = "completions" =>
          \A i \in 1..Len(generated) :
             CopiesIn(processed_chores[i].id, tx_completions)
                = CopiesIn(processed_chores[i].id, completions_db) + generated[i]

\* a second run has finished: every chore was found, under the id of the
\* first run, and the ids generated by the second run were dropped
C1_Witness ==
    /\ cpc = "done"
    /\ Len(chores_db) = Len(ModelChores)
    /\ Len(processed_chores) = Len(ModelChores)
    /\ nextId = 2 * Len(ModelChores) + 1
    /\ \A i \in 1..Len(processed_chores) : processed_chores[i].id <= Len(ModelChores)

\* C2: every row of chore_completions, committed or pending, has the id of a
\* row of chores as its chore_id.
C2_CompletionsReferenceChores ==
    /\ BagToSet(completions_db) \subseteq RowIds(chores_db)
    /\ BagToSet(tx_completions) \subseteq RowIds(tx_chores)

\* a run has committed completions on top of those of an earlier run
C2_Witness ==
    /\ cpc = "done"
    /\ Len(generated) = Len(ModelChores)
    /\ \E i \in 1..Len(generated) :
          CopiesIn(processed_chores[i].id, completions_db) > generated[i]

\* C3 as stated: a chore of duration_hours = 24 gets between 63 and 117
\* completion rows in a run.
C3_AsStated ==
    \A i \in 1..Len(generated) :
       processed_chores[i].duration_hours = 24 => generated[i] \in 63..117

\* C3, amended: a chore of duration_hours = 24 gets between 62 and 117
\* completion rows in a run (62 when random.random() returns 0.0, as
\* 90.0 * 0.7 is the float 62.99999999999999).
C3_CountRange ==
    \A i \in 1..Len(generated) :
       processed_chores[i].duration_hours = 24 => generated[i] \in 62..117

\* a chore of duration 24 got 62 completions
C3_Witness ==
    \E i \in 1..Len(generated) :
       processed_chores[i].duration_hours = 24 /\ generated[i] = 62

(***************************************************************************)
(* Claims about the notes / tags seeder                                    *)
(***************************************************************************)
\* C4: every note with a parent_id has as parent a note inserted by the
\* same seed_notes call, which belongs to the same user.
C4_ParentInSameBatch ==
    \A i \in 1..Len(notes_db) :
       notes_db[i].parent_id # NULL =>
          \E b \in 1..Len(batches) :
             /\ InSeq(notes_db[i].id, batches[b].ids)
             /\ InSeq(notes_db[i].parent_id, batches[b].ids)
             /\ \E j \in 1..Len(notes_db) :
                   /\ notes_db[j].id = notes_db[i].parent_id
                   /\ notes_db[j].user_id = notes_db[i].user_id

\* two seed_notes calls were made for one user, and a note of the later one
\* has a parent
C4_Witness ==
    \E b1, b2 \in 1..Len(batches) :
       /\ b1 < b2
       /\ batches[b1].user = batches[b2].user
       /\ \E i \in 1..Len(notes_db) :
             /\ InSeq(notes_db[i].id, batches[b2].ids)
             /\ notes_db[i].parent_id # NULL

\* C5: no two rows of tags have the same title and user_id.
C5_TagsUnique ==
    \A i, j \in 1..Len(tags_db) :
       (tags_db[i].title = tags_db[j].title /\ tags_db[i].user_id = tags_db[j].user_id)
          => i = j

\* seed_tags has run for a user who owned the tags already: none of the ids
\* it generated is in the table
C5_Witness ==
    /\ npc = "links"
    /\ Len(tag_ids) = Len(SAMPLE_TAGS)
    /\ \A i \in 1..Len(tag_ids) : tag_ids[i] \notin RowIds(tags_db)
    /\ \E i \in 1..Len(tags_db) : tags_db[i].user_id = users[ui]

\* C6: no two rows of note_tags have the same note_id and tag_id.
C6_NoteTagsUnique ==
    \A i, j \in 1..Len(note_tags_db) :
       (/\ note_tags_db[i].note_id = note_tags_db[j].note_id
        /\ note_tags_db[i].tag_id = note_tags_db[j].tag_id) => i = j

\* the notes of two seed_notes calls for one user are linked to one tag
C6_Witness ==
    \E i, j \in 1..Len(note_tags_db) :
       /\ note_tags_db[i].tag_id = note_tags_db[j].tag_id
       /\ \E b1, b2 \in 1..Len(batches) :
             /\ b1 < b2
             /\ batches[b1].user = batches[b2].user
             /\ InSeq(note_tags_db[i].note_id, batches[b1].ids)
             /\ InSeq(note_tags_db[j].note_id, batches[b2].ids)

\* C8: when get_users returned no user, main ends at once: the tables are
\* not created, nothing is inserted and no id is generated.
C8_NoUsersNoInsert ==
    [][(npc = "got_users" /\ users = <<>>) =>
          /\ npc' = "done"
          /\ UNCHANGED <<notes_db, tags_db, note_tags_db, schema_created,
                         nextId, batches>>]_vars

\* a run has ended on "No users found", after a failed read of the users
\* table, with nothing created
C8_Witness ==
    /\ npc = "done"
    /\ users = <<>>
    /\ raised = {"get_users"}
    /\ ~schema_created
    /\ notes_db = <<>>

\* the note of a batch with a title
BatchNote(b, title) ==
    CHOOSE i \in 1..Len(notes_db) :
       InSeq(notes_db[i].id, batches[b].ids) /\ notes_db[i].title = title

\* C9: in every batch, "Introduction to Machine Learning", "Deep Learning
\* Fundamentals" and "Algorithms and Data Structures" have the batch's
\* "Computer Science" note as parent.
C9_ChildrenOfComputerScience ==
    \A b \in 1..Len(batches) :
       \A title \in {"Introduction to Machine Learning",
                      "Deep Learning Fundamentals",
                      "Algorithms and Data Structures"} :
          notes_db[BatchNote(b, title)].parent_id
             = notes_db[BatchNote(b, "Computer Science")].id

(***************************************************************************)
(* Claims about the folder-tree seeder and about the three scripts         *)
(***************************************************************************)
\* C7: the committed table of the folder-tree seeder is empty or holds
\* exactly the 29 rows of data; once a run has committed it holds the 29
\* rows, and a later run changes nothing, not even before it commits.
C7_TreeIdempotent ==
    /\ tree_db = <<>> \/ tree_db = data
    /\ tree_commits >= 1 => (tree_db = data /\ Len(tree_db) = 29)
    /\ tree_db = data => tree_tx = data

\* a second run has committed
C7_Witness ==
    /\ tree_commits = 2
    /\ tpc = "done"
    /\ Len(tree_db) = 29

\* C10 as stated: no script ends on an uncaught exception.
C10_AsStated ==
    /\ cpc # "uncaught"
    /\ npc # "uncaught"
    /\ tpc # "uncaught"

\* C10, amended: a database error other than a duplicate-key violation is
\* caught and printed in the folder-tree seeder and in get_users, and the
\* function returns without completing its remaining statements; in the
\* chore seeder and in the other functions of the notes seeder it leaves
\* the script as an uncaught exception.
C10_ErrorsCaughtWhereHandled ==
    /\ tpc # "uncaught"
    /\ "create_connection" \in raised =>
          tpc = "done" /\ raised = {"create_connection"} /\ ~tree_committed
    /\ "create_table" \in raised => tpc \in {"insert", "done"}
    /\ "insert_initial_data" \in raised =>
          tpc = "done" /\ ~tree_committed /\ tree_tx = tree_db
    /\ "get_users" \in raised => users = <<>> /\ npc \in {"got_users", "done"}
    /\ "populate_test_data.main" \in raised => cpc = "uncaught"
    /\ raised \cap {"create_database", "seed_notes", "seed_tags",
                     "create_note_tag_relationships"} # {} => npc = "uncaught"

\* insert_initial_data caught an error after create_table had caught one,
\* and main has returned
C10_Witness ==
    /\ raised = {"create_table", "insert_initial_data"}
    /\ tpc = "done"

(***************************************************************************)
(* Claims settled after the first ten                                      *)
(***************************************************************************)
\* C11: the chore seeder writes to the committed database in one step only,
\* the commit that follows the last completion insert; until then the rows
\* the run has inserted are pending and the committed tables hold none of
\* them, so a run that ends on an exception leaves the committed tables as
\* they were.
C11_SingleCommit ==
    /\ [](cpc \in {"create_chores", "completions"} =>
            /\ Len(chores_db) <= Len(tx_chores)
            /\ SubSeq(tx_chores, 1, Len(chores_db)) = chores_db
            /\ \A i \in (Len(chores_db) + 1)..Len(tx_chores) :
                  tx_chores[i].id \notin RowIds(chores_db)
            /\ \A i \in 1..Len(generated) :
                  CopiesIn(processed_chores[i].id, completions_db)
                     = CopiesIn(processed_chores[i].id, tx_completions) - generated[i])
    /\ [][(chores_db' # chores_db \/ completions_db' # completions_db) =>
             /\ cpc = "completions"
             /\ pi > Len(processed_chores)
             /\ cpc' = "done"
             /\ chores_db' = tx_chores
             /\ completions_db' = tx_completions]_vars

\* a first run has ended on an exception after it had inserted every chore
\* and the completions of some, and the committed tables are still empty
C11_Witness ==
    /\ cpc = "uncaught"
    /\ runs = 1
    /\ Len(processed_chores) = Len(ModelChores)
    /\ Len(generated) >= 1
    /\ chores_db = <<>>
    /\ completions_db = EmptyBag

\* the parent_id stored for the note with this id, NULL for NULL
ParentOf(id) ==
    IF id = NULL THEN NULL ELSE RowWithId(notes_db, id).parent_id

\* C12: in every batch of seed_notes, "Sorting Algorithms" and "Binary
\* Search Trees" have the batch's "Algorithms and Data Structures" note as
\* parent, that note has the batch's "Computer Science" note as parent,
\* "Computer Science" has no parent, no other note of the batch has a
\* parent, and from every note of the batch at most two parent links lead
\* to a note without parent (depth at most two, no cycle).
C12_BatchIsTwoLevelTree ==
    \A b \in 1..Len(batches) :
       LET cs  == notes_db[BatchNote(b, "Computer Science")]
           alg == notes_db[BatchNote(b, "Algorithms and Data Structures")]
       IN  /\ notes_db[BatchNote(b, "Sorting Algorithms")].parent_id = alg.id
           /\ notes_db[BatchNote(b, "Binary Search Trees")].parent_id = alg.id
           /\ alg.parent_id = cs.id
           /\ cs.parent_id = NULL
           /\ \A i \in 1..Len(notes_db) :
                 InSeq(notes_db[i].id, batches[b].ids) =>
                    /\ notes_db[i].title \notin
                          {"Sorting Algorithms", "Binary Search Trees",
                           "Algorithms and Data Structures"}
                         => notes_db[i].parent_id = NULL
                    /\ ParentOf(ParentOf(ParentOf(notes_db[i].id))) = NULL

\* two batches are stored for one user, and in the later one "Sorting
\* Algorithms" is two parent links below a note without parent
C12_Witness ==
    \E b1, b2 \in 1..Len(batches) :
       /\ b1 < b2
       /\ batches[b1].user = batches[b2].user
       /\ LET sorting == notes_db[BatchNote(b2, "Sorting Algorithms")]
          IN  /\ ParentOf(sorting.id) # NULL
              /\ ParentOf(ParentOf(sorting.id)) # NULL
              /\ ParentOf(ParentOf(ParentOf(sorting.id))) = NULL

\* C13: the list seed_tags returns holds exactly the ids of the rows the call
\* inserted: its length, which main prints as "Created N tags", is the
\* number of rows added to tags, and every id in it is the id of a row of
\* tags that belongs to the user.
C13_ReturnedIdsAreInserted ==
    [][(npc = "seed_tags" /\ npc' = "links") =>
          /\ Len(tag_ids') = Len(tags_db') - Len(tags_db)
          /\ \A i \in 1..Len(tag_ids') :
                \E j \in 1..Len(tags_db') :
                   /\ tags_db'[j].id = tag_ids'[i]
                   /\ tags_db'[j].user_id = users[ui]]_vars

\* every run so far was made with the present list of users, whose ids are
\* distinct, and main ended each of them normally
CompleteRuns ==
    /\ npc = "done"
    /\ runs >= 1
    /\ Len(seeded) = runs
    /\ \A r \in 1..Len(seeded) : seeded[r] = users
    /\ Len(users) >= 1
    /\ \A i, j \in 1..Len(users) : users[i] = users[j] => i = j

\* the user who owns the note with this id
NoteOwner(note_id) == RowWithId(notes_db, note_id).user_id

\* C14: from an empty notes database, after k complete runs with the same
\* users of distinct ids, each user owns 10*k notes, 20 tags and 32*k rows of
\* note_tags, and every row of note_tags links a stored note to a stored tag
\* of the same user; after a re-run none of the ids seed_tags generated and
\* discarded appears in note_tags.
C14_CountsAfterCompleteRuns ==
    CompleteRuns =>
       /\ \A i \in 1..Len(note_tags_db) :
             /\ note_tags_db[i].note_id \in RowIds(notes_db)
             /\ note_tags_db[i].tag_id \in RowIds(tags_db)
             /\ RowWithId(tags_db, note_tags_db[i].tag_id).user_id
                   = NoteOwner(note_tags_db[i].note_id)
       /\ \A u \in 1..Len(users) :
             /\ Len(SelectSeq(notes_db, LAMBDA r : r.user_id = users[u]))
                   = 10 * runs
             /\ Len(SelectSeq(tags_db, LAMBDA r : r.user_id = users[u])) = 20
             /\ Len(SelectSeq(note_tags_db,
                              LAMBDA r : NoteOwner(r.note_id) = users[u]))
                   = 32 * runs
       /\ runs >= 2 =>
             \A i \in 1..Len(tag_ids) :
                /\ tag_ids[i] \notin RowIds(tags_db)
                /\ \A j \in 1..Len(note_tags_db) :
                      note_tags_db[j].tag_id # tag_ids[i]

\* two complete runs were made for two users, and the ids the last seed_tags
\* call returned are of no stored tag
C14_Witness ==
    /\ CompleteRuns
    /\ runs = 2
    /\ Len(users) = 2
    /\ Len(tag_ids) = 20
    /\ \A i \in 1..Len(tag_ids) : tag_ids[i] \notin RowIds(tags_db)
    /\ Len(note_tags_db) = 128

====
